---- MODULE Spec2Model ----
(***************************************************************************)
(* Model of reactor_engine's interactive control layer: the Camera         *)
(* (src/src/camera.rs), the input event model (src/src/input.rs) and the   *)
(* frame loop of Window (src/src/window.rs).                               *)
(*                                                                         *)
(* Units.  Floats are modelled by integers on fixed grids:                 *)
(*   angles (yaw, pitch)      tenths of a degree    (89.0 deg  = 890)      *)
(*   zoom, cursor, offsets    whole units           (45.0      = 45)       *)
(*   time (TimeSec)           tenths of a second    (0.1 s     = 1)        *)
(*   direction vectors        thousandths           (1.0       = 1000)     *)
(*   position                 1/100000 of a unit    (3.0       = 300000)   *)
(* mouse_sensitivity 0.1 deg/pixel is 1 tenth of a degree per pixel and    *)
(* movement_speed 2.5 is 25 tenths, so that                                *)
(*   front(1/1000) * speed(1/10) * dt(1/10)  is a position in 1/100000.    *)
(***************************************************************************)
EXTENDS Integers, Sequences, FiniteSets, TLC

\* ------------------------------------------------------------------ bounds
MaxControls == 3
MaxTicks == 2
MaxExt == 1
MaxEvents == 2
MaxCalls == 3
MaxActs == 1

\* ------------------------------------------------------- program constants
ZoomMin == 1
ZoomMax == 45
PitchMax == 890

\* Option<T>: None is the empty sequence, Some(v) the one-element sequence.
None == <<>>
Some(v) == <<v>>
is_none(o) == o = <<>>
unwrap(o) == o[1]
unwrap_or(o, d) == IF o = <<>> THEN d ELSE o[1]

\* ---------------------------------------------------------------- vectors
Vec3(x, y, z) == [x |-> x, y |-> y, z |-> z]
VZero == Vec3(0, 0, 0)
VAdd(a, b) == Vec3(a.x + b.x, a.y + b.y, a.z + b.z)
VNeg(a) == Vec3(-a.x, -a.y, -a.z)
VScale(a, k) == Vec3(a.x * k, a.y * k, a.z * k)
VDot(a, b) == a.x * b.x + a.y * b.y + a.z * b.z

\* Division rounding to nearest, as the float operations round.
RDiv(a, b) == IF a >= 0 THEN (2 * a + b) \div (2 * b) ELSE -((2 * (-a) + b) \div (2 * b))

\* Vector3::cross, the products as they are (no rescaling)
VCrossRaw(a, b) ==
    Vec3(a.y * b.z - a.z * b.y,
         a.z * b.x - a.x * b.z,
         a.x * b.y - a.y * b.x)

\* cross product of two vectors in thousandths, result in thousandths
VCross(a, b) ==
    LET c == VCrossRaw(a, b)
    IN Vec3(RDiv(c.x, 1000), RDiv(c.y, 1000), RDiv(c.z, 1000))

RECURSIVE ISqrtIter(_, _, _)
ISqrtIter(n, lo, hi) ==
    IF lo >= hi THEN lo
    ELSE LET mid == (lo + hi + 1) \div 2
         IN IF mid * mid <= n THEN ISqrtIter(n, mid, hi) ELSE ISqrtIter(n, lo, mid - 1)

\* floor of the square root (of a sum of three squares of at most 20000 each)
ISqrt(n) == ISqrtIter(n, 0, 35000)

\* the largest magnitude among the components
VMax(v) ==
    LET ax == IF v.x < 0 THEN -v.x ELSE v.x
        ay == IF v.y < 0 THEN -v.y ELSE v.y
        az == IF v.z < 0 THEN -v.z ELSE v.z
        m  == IF ax >= ay THEN ax ELSE ay
    IN IF m >= az THEN m ELSE az

\* A float carries its own exponent: the quotient v / |v| is as precise for a
\* short or a long vector as for one of length 1.  VFit brings a non-zero
\* vector to the magnitude where the grid has that precision.
RECURSIVE VFit(_)
VFit(v) ==
    IF VMax(v) > 20000 THEN VFit(Vec3(RDiv(v.x, 10), RDiv(v.y, 10), RDiv(v.z, 10)))
    ELSE IF VMax(v) < 2000 THEN VFit(VScale(v, 10))
    ELSE v

\* what a float division 0.0 / 0.0 yields in every component
VNaN == [x |-> "NaN", y |-> "NaN", z |-> "NaN"]

\* InnerSpace::normalize: v / |v|, a unit vector (in thousandths) for every
\* non-zero vector whatever its length, NaN for the zero vector.
VNormalize(v) ==
    IF v = VZero THEN VNaN
    ELSE LET w == VFit(v)
             len == ISqrt(VDot(w, w))
         IN Vec3(RDiv(w.x * 1000, len), RDiv(w.y * 1000, len), RDiv(w.z * 1000, len))

\* sin of an angle in tenths of a degree, in thousandths.  The half wave on
\* [0, 180] degrees is Bhaskara's rational approximation
\*   sin x = 4x(180-x) / (40500 - x(180-x)),
\* which is exact at 0, 30, 90, 150 and 180 degrees and within 0.002 elsewhere
\* (numerator and denominator are both divided by 10 to stay within 32 bits).
SinHalfWave(m) == RDiv(400 * m * (1800 - m), RDiv(4050000 - m * (1800 - m), 10))
Sin(t) == LET m == t % 3600 IN IF m <= 1800 THEN SinHalfWave(m) ELSE -SinHalfWave(m - 1800)
Cos(t) == Sin(t + 900)

\* The f32 cosine of an odd multiple of 90 degrees is not zero: to_radians
\* rounds the angle, and cos of the rounded angle is a value of magnitude
\* 1e-8 .. 2e-6, below the grid but with a sign.  CosLow is that sign (the same
\* for t and -t), 0 where the cosine is on the grid; it is tabulated for
\* |t| <= 3690 degrees.
CosLow(t) ==
    LET m == IF t < 0 THEN -t ELSE t
    IN IF Cos(t) # 0 THEN 0
       ELSE IF m \in {2700, 4500, 13500, 15300, 17100, 18900, 26100, 27900, 29700, 36900}
            THEN 1
       ELSE IF m \in {900, 6300, 8100, 9900, 11700, 20700, 22500, 24300, 31500, 33300, 35100}
            THEN -1
       ELSE 0

\* ----------------------------------------------------------------- camera
WorldUp == Vec3(0, 1000, 0)

\* The unnormalized front of update_vectors,
\*   (cos yaw cos pitch, sin pitch, sin yaw cos pitch),
\* in millionths, no component rounded.
FrontRaw(cam) ==
    Vec3(Cos(cam.yaw) * Cos(cam.pitch), Sin(cam.pitch) * 1000, Sin(cam.yaw) * Cos(cam.pitch))

\* front.cross(world_up) before it is normalized.  The float product keeps
\* the direction of a front that is nearly parallel to world_up, so it is
\* taken from the unrounded front; where cos pitch is below the grid, from
\* the sign the float cosine has there.
RightRaw(cam) ==
    LET c == VCrossRaw(FrontRaw(cam), cam.world_up)
        low == Vec3(Cos(cam.yaw) * CosLow(cam.pitch), 0, Sin(cam.yaw) * CosLow(cam.pitch))
    IN IF c # VZero THEN c ELSE VCrossRaw(low, cam.world_up)

\* mutant: right left as the cross product, not normalized
update_vectorsRightRaw(cam) ==
    LET front == VNormalize(FrontRaw(cam))
        right == VCross(front, cam.world_up)
        up    == IF VCross(right, front) = VZero THEN VZero
                 ELSE VNormalize(VCross(right, front))
    IN [cam EXCEPT !.front = front, !.right = right, !.up = up]

update_vectors(cam) ==
    LET front == VNormalize(FrontRaw(cam))
        right == VNormalize(RightRaw(cam))
        up    == VNormalize(VCross(right, front))
    IN [cam EXCEPT !.front = front, !.right = right, !.up = up]

DefaultCamera ==
    update_vectors(
        [position |-> Vec3(0, 0, 300000),
         front |-> Vec3(0, 0, -1000),
         up |-> VZero,
         right |-> VZero,
         world_up |-> WorldUp,
         yaw |-> -900,
         pitch |-> 0,
         constrain_pitch |-> TRUE,
         rotate_enabled |-> FALSE,
         movement_speed |-> 25,
         mouse_sensitivity |-> 1,
         zoom |-> 45])

\* mutant: a fixed step per call (per frame), whatever the frame time
movementPerFrame(cam, direction, delta_time) ==
    CASE direction = "FORWARD" ->
           [cam EXCEPT !.position = VAdd(@, VScale(cam.front, cam.movement_speed * 10))]
      [] direction = "BACKWARD" ->
           [cam EXCEPT !.position = VAdd(@, VNeg(VScale(cam.front, cam.movement_speed * 10)))]
      [] direction = "LEFT" ->
           [cam EXCEPT !.position = VAdd(@, VNeg(VScale(cam.right, cam.movement_speed * 10)))]
      [] direction = "RIGHT" ->
           [cam EXCEPT !.position = VAdd(@, VScale(cam.right, cam.movement_speed * 10))]

movement(cam, direction, delta_time) ==
    CASE direction = "FORWARD" ->
           [cam EXCEPT !.position = VAdd(@, VScale(cam.front, cam.movement_speed * delta_time))]
      [] direction = "BACKWARD" ->
           [cam EXCEPT !.position = VAdd(@, VNeg(VScale(cam.front, cam.movement_speed * delta_time)))]
      [] direction = "LEFT" ->
           [cam EXCEPT !.position = VAdd(@, VNeg(VScale(cam.right, cam.movement_speed * delta_time)))]
      [] direction = "RIGHT" ->
           [cam EXCEPT !.position = VAdd(@, VScale(cam.right, cam.movement_speed * delta_time))]

\* mutant: the upper clamp left out
ScrollZoomNoUpperClamp(zoom, y_offset) ==
    LET z1 == IF zoom >= ZoomMin /\ zoom <= ZoomMax THEN zoom - y_offset ELSE zoom
    IN IF z1 <= ZoomMin THEN ZoomMin ELSE z1

\* mutant: a scroll whose result would leave the range is rejected
ScrollZoomReject(zoom, y_offset) ==
    IF zoom - y_offset >= ZoomMin /\ zoom - y_offset <= ZoomMax THEN zoom - y_offset ELSE zoom

\* the scroll branch of on_mouse: apply when in range, then clamp
ScrollZoom(zoom, y_offset) ==
    LET z1 == IF zoom >= ZoomMin /\ zoom <= ZoomMax THEN zoom - y_offset ELSE zoom
        z2 == IF z1 <= ZoomMin THEN ZoomMin ELSE z1
    IN IF z2 >= ZoomMax THEN ZoomMax ELSE z2

\* mutant: the lower clamp left out
ClampPitchUpperOnly(constrain_pitch, pitch) ==
    IF constrain_pitch /\ pitch > PitchMax THEN PitchMax ELSE pitch

\* the clamp of pitch in the motion branch of on_mouse
ClampPitch(constrain_pitch, pitch) ==
    IF constrain_pitch
    THEN LET p1 == IF pitch > PitchMax THEN PitchMax ELSE pitch
         IN IF p1 < -PitchMax THEN -PitchMax ELSE p1
    ELSE pitch

\* mutant: the motion branch not gated
RotationAlways(cam) == TRUE

\* the gate of the motion branch of on_mouse
RotationApplies(cam) == cam.rotate_enabled

on_mouse(cam, mouse) ==
    IF mouse.is_scroll
    THEN [cam EXCEPT !.zoom = ScrollZoom(cam.zoom, mouse.y_offset)]
    ELSE IF RotationApplies(cam)
         THEN LET x_offset == mouse.x_offset * cam.mouse_sensitivity
                  y_offset == mouse.y_offset * cam.mouse_sensitivity
              IN update_vectors(
                    [cam EXCEPT !.yaw = cam.yaw + x_offset,
                                !.pitch = ClampPitch(cam.constrain_pitch, cam.pitch + y_offset)])
         ELSE cam

on_keyboard(cam, key) == cam

\* mutant: the release arm left out, rotation stays enabled once pressed
on_inputNoRelease(cam, window, delta_time) ==
    LET c0 == IF window.button_left /\ ~cam.rotate_enabled
              THEN [cam EXCEPT !.rotate_enabled = TRUE]
              ELSE cam
        c1 == IF "W" \in window.keys THEN movement(c0, "FORWARD", delta_time) ELSE c0
        c2 == IF "S" \in window.keys THEN movement(c1, "BACKWARD", delta_time) ELSE c1
        c3 == IF "A" \in window.keys THEN movement(c2, "LEFT", delta_time) ELSE c2
    IN IF "D" \in window.keys THEN movement(c3, "RIGHT", delta_time) ELSE c3

\* window: the live backend state on_input polls, [button_left, keys]
on_input(cam, window, delta_time) ==
    LET c0 == IF window.button_left /\ ~cam.rotate_enabled
              THEN [cam EXCEPT !.rotate_enabled = TRUE]
              ELSE IF ~window.button_left /\ cam.rotate_enabled
                   THEN [cam EXCEPT !.rotate_enabled = FALSE]
                   ELSE cam
        c1 == IF "W" \in window.keys THEN movement(c0, "FORWARD", delta_time) ELSE c0
        c2 == IF "S" \in window.keys THEN movement(c1, "BACKWARD", delta_time) ELSE c1
        c3 == IF "A" \in window.keys THEN movement(c2, "LEFT", delta_time) ELSE c2
    IN IF "D" \in window.keys THEN movement(c3, "RIGHT", delta_time) ELSE c3

\* ------------------------------------------------------------ input events
\* WindowEvent, the backend's raw notifications
CursorPos(x, y) == [type |-> "CursorPos", x |-> x, y |-> y, key |-> "", action |-> ""]
Scroll(x, y) == [type |-> "Scroll", x |-> x, y |-> y, key |-> "", action |-> ""]
MouseButton(button, action) == [type |-> "MouseButton", x |-> 0, y |-> 0, key |-> button, action |-> action]
Key(key, action) == [type |-> "Key", x |-> 0, y |-> 0, key |-> key, action |-> action]
FramebufferSize(w, h) == [type |-> "FramebufferSize", x |-> w, y |-> h, key |-> "", action |-> ""]

KeyEvent(key, action) == [key |-> key, action |-> action]
MouseButtonEvent(button, action) == [button |-> button, action |-> action]
MouseEvent(x_pos, y_pos, x_offset, y_offset, is_scroll, button_event) ==
    [x_pos |-> x_pos, y_pos |-> y_pos, x_offset |-> x_offset, y_offset |-> y_offset,
     is_scroll |-> is_scroll, button_event |-> button_event]
NoEvent == [none |-> TRUE]

\* the event kinds Window::new asks the backend to report
Polling == {"Key", "CursorPos", "Scroll", "FramebufferSize"}

\* what the backend can report in the model
Actions == {"Press", "Release", "Repeat"}
RawEvents ==
    {CursorPos(100, 900), CursorPos(130, 0)}
    \cup {Scroll(0, 1000), Scroll(5, -1000)}
    \cup {Key("Escape", a) : a \in Actions}
    \cup {Key("W", "Press"), Key("W", "Release")}
    \cup {MouseButton("Left", a) : a \in {"Press", "Release"}}
    \cup {FramebufferSize(800, 600)}
\* a smaller choice, for the runs with an external owner
FewEvents == {CursorPos(130, 0), Key("Escape", "Press")}
\* the keys on_input polls
MoveKeys == {"W", "S", "A", "D"}
\* the frame times the backend clock yields: direct calls of on_input take
\* either, the frame loop runs at a steady 0.2 s
FrameTimes == {1, 2}
SteadyFrame == {2}
\* uneven frame times, 0.5 s to 1.5 s, for the runs with keys held
HoldFrameTimes == {5, 10, 15}
\* the movement keys held down throughout such a run
HeldKeySets == {{"W"}, {"W", "D"}, {"W", "S"}, {"A"}}
\* what happens at the backend meanwhile: the cursor moves
HoldEvents == {CursorPos(130, 0)}

\* sequences over S of length at most n
RECURSIVE SeqsUpTo(_, _)
SeqsUpTo(S, n) ==
    IF n = 0 THEN {<<>>}
    ELSE LET shorter == SeqsUpTo(S, n - 1)
         IN shorter \cup {Append(q, e) : q \in shorter, e \in S}

\* ------------------------------------------------------------------- state
VARIABLES
    controls,        \* Window.controls: the registry, a sequence of controllable ids
    cams,            \* the controllable behind each id (a Camera)
    lock,            \* each controllable's mutex: "free", "loop" or "ext"
    poisoned,        \* each mutex's poison flag
    delta_time,      \* Window.timing.delta_time
    last_frame,      \* Window.timing.last_frame
    queue,           \* the backend's event channel (Window.events)
    last_mouse_pos,  \* Window.last_mouse_pos
    should_close,    \* the backend window's close flag
    live,            \* the backend's live button and key state
    has_render,      \* whether events_loop was given a render callback
    pc,              \* where events_loop stands
    tick,            \* iterations of the loop started
    dkind,           \* the dispatch in flight: "none", "mouse", "key" or "input"
    dev,             \* its event
    di,              \* index into controls of the next controllable
    calls,           \* controllables called so far by the dispatch in flight
    steps,           \* steps of the current tick begun so far
    produced,        \* things that happened at the backend so far
    ext,             \* lock acquisitions by the external owner so far
    before,          \* the controllable as it was before the latest handler call
    ncalls,          \* handler calls made directly on the camera (no loop)
    joined,          \* for each entry of the registry, the tick in which it was
                     \* registered (0: before the loop started)
    gate,            \* each controllable's rotate_enabled when the current tick
                     \* started (as the previous tick's continuous poll left it)
    now,             \* the backend clock, glfw.get_time()
    events,          \* Window.events: Some(receiver) until events_loop takes it
    taken,           \* the local `events` of the running events_loop
    acts,            \* uses of the window by its caller and by the render callback
    stack            \* the calls of events_loop that are inside their render
                     \* callback while a call made by that callback runs

vars == <<controls, cams, lock, poisoned, delta_time, last_frame, queue, last_mouse_pos,
          should_close, live, has_render, pc, tick, dkind, dev, di, calls, steps,
          produced, ext, before, ncalls, joined, gate, now, events, taken, acts, stack>>

Ids == 1..MaxControls

\* the state after Window::new and Timing::default, with the controllables
\* ctrls registered, the first of them the camera cam1, and the backend's
\* live button and key state one of L
StartLive(p, ctrls, cam1, L) ==
    /\ controls = ctrls
    /\ joined = [k \in 1..Len(ctrls) |-> 0]
    /\ gate = [c \in Ids |-> IF c = 1 THEN cam1.rotate_enabled ELSE DefaultCamera.rotate_enabled]
    /\ cams = [c \in Ids |-> IF c = 1 THEN cam1 ELSE DefaultCamera]
    /\ lock = [c \in Ids |-> "free"]
    /\ poisoned = [c \in Ids |-> FALSE]
    /\ delta_time = 0
    /\ last_frame = 0
    /\ queue = <<>>
    /\ last_mouse_pos = None
    /\ should_close = FALSE
    /\ live \in L
    /\ has_render = FALSE
    /\ pc = p
    /\ tick = 0
    /\ dkind = "none"
    /\ dev = NoEvent
    /\ di = 0
    /\ calls = <<>>
    /\ steps = <<>>
    /\ produced = 0
    /\ ext = 0
    /\ before = cam1
    /\ ncalls = 0
    /\ now = 0
    /\ events = Some("receiver")
    /\ taken = None
    /\ acts = 0
    /\ stack = <<>>

\* the same, with no key held
Start(p, ctrls, cam1) == StartLive(p, ctrls, cam1, [button_left : BOOLEAN, keys : {{}}])

\* nothing registered, loop not started
Init == Start("setup", <<>>, DefaultCamera)

\* ----------------------------------------------------------- events_loop
\* mutant: the continuous poll before the event drain
NextStepInputFirst(p) ==
    CASE p = "timing" -> "input"
      [] p = "input" -> "events"
      [] p = "events" -> "render"
      [] p = "render" -> "swap"
      [] p = "swap" -> "poll"
      [] p = "poll" -> "while"

\* mutant: the render callback first, before the event drain and the poll
NextStepRenderFirst(p) ==
    CASE p = "timing" -> "render"
      [] p = "render" -> "events"
      [] p = "events" -> "input"
      [] p = "input" -> "swap"
      [] p = "swap" -> "poll"
      [] p = "poll" -> "while"

\* the order of the statements of one iteration of events_loop
NextStep(p) ==
    CASE p = "timing" -> "events"
      [] p = "events" -> "input"
      [] p = "input" -> "render"
      [] p = "render" -> "swap"
      [] p = "swap" -> "poll"
      [] p = "poll" -> "while"

\* if let Some(ref events) = events { self.process_events(events); }
\* the statement after p: process_events is passed over when the receiver was
\* not there to take
After(p) ==
    LET q == NextStep(p)
    IN IF q = "events" /\ is_none(taken) THEN NextStep(q) ELSE q

Goto(p) ==
    /\ pc' = p
    /\ steps' = IF p = "while" THEN steps ELSE Append(steps, p)

\* the ids no entry of the registry refers to and no other owner holds
Unused(ctrls) == {c \in Ids : lock[c] = "free" /\ \A k \in 1..Len(ctrls) : ctrls[k] # c}
\* ObjectPar::construct(..): a new object, the least such id
Fresh(ctrls) == CHOOSE c \in Unused(ctrls) : \A d \in Unused(ctrls) : c <= d

\* window.controls.push(ObjectPar::construct(Camera::default()))
Push(ctrls) == Append(ctrls, Fresh(ctrls))

\* the caller registers a controllable, before events_loop is called or after
\* it returned
Register ==
    /\ pc \in {"setup", "done"}
    /\ dkind = "none"
    /\ Len(controls) < MaxControls
    /\ Unused(controls) # {}
    /\ controls' = Push(controls)
    /\ joined' = Append(joined, tick)
    /\ cams' = [cams EXCEPT ![Fresh(controls)] = DefaultCamera]
    /\ poisoned' = [poisoned EXCEPT ![Fresh(controls)] = FALSE]
    /\ UNCHANGED <<stack, now, events, taken, acts, gate, lock, delta_time, last_frame, queue, last_mouse_pos,
                   should_close, live, has_render, pc, tick, dkind, dev, di, calls, steps,
                   produced, ext, ncalls, before>>

\* what a call of events_loop keeps on its frame while its render callback runs
Suspended == [has_render |-> has_render, taken |-> taken, steps |-> steps]

\* events_loop(render) is called: by the caller, for the first time or again
\* after it returned, or by the render callback on the &mut Window it was given
\* let events = mem::replace(&mut self.events, None)
StartLoop ==
    /\ dkind = "none"
    /\ \/ /\ pc \in {"setup", "done"}
          /\ UNCHANGED <<acts, stack>>
       \/ /\ pc = "render"
          /\ has_render
          /\ acts < MaxActs
          /\ acts' = acts + 1
          /\ stack' = Append(stack, Suspended)
    /\ \E r \in BOOLEAN : has_render' = r
    /\ taken' = events
    /\ events' = None
    /\ pc' = "while"
    /\ UNCHANGED <<now, controls, joined, gate, cams, lock, poisoned, delta_time, last_frame, queue,
                   last_mouse_pos, should_close, live, tick, dkind, dev, di, calls, steps,
                   produced, ext, ncalls, before>>

\* mutant: the loop condition never looks at the close flag
LoopForever(closing) == TRUE

\* while !self.window.should_close()
LoopContinues(closing) == ~closing

\* the loop condition; when it fails events_loop returns, to the caller or into
\* the render callback that called it, and its local `events` is dropped
LoopCheck ==
    /\ pc = "while"
    /\ IF LoopContinues(should_close)
       THEN /\ tick < MaxTicks
            /\ tick' = tick + 1
            /\ pc' = "timing"
            /\ steps' = <<"timing">>
            /\ gate' = [c \in Ids |-> cams[c].rotate_enabled]
            /\ UNCHANGED <<taken, queue, has_render, stack>>
       ELSE IF stack = <<>>
       THEN /\ pc' = "done"
            /\ taken' = None
            /\ queue' = <<>>
            /\ UNCHANGED <<tick, steps, gate, has_render, stack>>
       ELSE LET outer == stack[Len(stack)]
            IN /\ pc' = "render"
               /\ has_render' = outer.has_render
               /\ taken' = outer.taken
               /\ steps' = outer.steps
               /\ stack' = SubSeq(stack, 1, Len(stack) - 1)
               /\ queue' = IF is_none(taken) THEN queue ELSE <<>>
               /\ UNCHANGED <<tick, gate>>
    /\ UNCHANGED <<now, events, acts, controls, joined, cams, lock, poisoned, delta_time, last_frame,
                   last_mouse_pos, should_close, live, dkind, dev, di, calls,
                   produced, ext, ncalls, before>>

\* mutant: the time since the clock started, not since the last frame
DeltaTimeSinceStart(current_frame, last) == current_frame

\* self.timing.delta_time = current_frame - self.timing.last_frame
DeltaTime(current_frame, last) == current_frame - last

\* Window::timing; the backend clock has advanced by a time drawn from T
Timing(T) ==
    /\ pc = "timing"
    /\ \E d \in T :
         LET current_frame == now + d
         IN /\ now' = current_frame
            /\ delta_time' = DeltaTime(current_frame, last_frame)
            /\ last_frame' = current_frame
    /\ Goto(After("timing"))
    /\ UNCHANGED <<stack, events, taken, acts, controls, joined, gate, cams, lock, poisoned, queue, last_mouse_pos, should_close,
                   live, has_render, tick, dkind, dev, di, calls, produced, ext,
                   ncalls, before>>

\* mutant: the quit key matched whatever its action
QuitKeyAnyAction(ev) == ev.key = "Escape"

\* KeyEvent(Key::Escape, _, Action::Press, _)
QuitKey(ev) == ev.key = "Escape" /\ ev.action = "Press"

\* mutant: no seeding, an unset last position read as (0,0)
CursorOffsetsUnseeded(x_pos, y_pos, lmp) ==
    LET last == unwrap_or(lmp, <<0, 0>>)
    IN [x_offset |-> x_pos - last[1], y_offset |-> last[2] - y_pos]

\* the CursorPos arm of process_events: the offsets against the last position
CursorOffsets(x_pos, y_pos, lmp) ==
    LET seeded == IF is_none(lmp) THEN Some(<<x_pos, y_pos>>) ELSE lmp
        x_last == unwrap(seeded)[1]
        y_last == unwrap(seeded)[2]
    IN [x_offset |-> x_pos - x_last, y_offset |-> y_last - y_pos]

\* mutant: the vertical delta reversed, as the cursor arm reverses its y offset
ScrollEventReversed(x_offset, y_offset, lmp) ==
    LET pos == unwrap_or(lmp, <<0, 0>>)
    IN MouseEvent(pos[1], pos[2], x_offset, -y_offset, TRUE, None)

\* the Scroll arm of process_events: the MouseEvent it builds
ScrollEvent(x_offset, y_offset, lmp) ==
    LET pos == unwrap_or(lmp, <<0, 0>>)
    IN MouseEvent(pos[1], pos[2], x_offset, y_offset, TRUE, None)

\* one arm of the match of process_events: what is dispatched, and the new last_mouse_pos
Normalize(ev, lmp) ==
    CASE ev.type = "FramebufferSize" ->
           [kind |-> "none", event |-> NoEvent, lmp |-> lmp]
      [] ev.type = "CursorPos" ->
           LET off == CursorOffsets(ev.x, ev.y, lmp)
           IN [kind |-> "mouse",
               event |-> MouseEvent(ev.x, ev.y, off.x_offset, off.y_offset, FALSE, None),
               lmp |-> Some(<<ev.x, ev.y>>)]
      [] ev.type = "Scroll" ->
           [kind |-> "mouse", event |-> ScrollEvent(ev.x, ev.y, lmp), lmp |-> lmp]
      [] ev.type = "MouseButton" ->
           LET pos == unwrap_or(lmp, <<0, 0>>)
           IN [kind |-> "mouse",
               event |-> MouseEvent(pos[1], pos[2], 0, 0, FALSE,
                                    Some(MouseButtonEvent(ev.key, ev.action))),
               lmp |-> lmp]
      [] ev.type = "Key" ->
           [kind |-> "key", event |-> KeyEvent(ev.key, ev.action), lmp |-> lmp]
      [] OTHER ->
           [kind |-> "none", event |-> NoEvent, lmp |-> lmp]

\* Window::mouse_event and Window::keyboard_event up to their loop over the
\* controls: keyboard_event first matches the quit key
Deliver(kind, event) ==
    /\ should_close' = IF kind = "key" /\ QuitKey(event) THEN TRUE ELSE should_close
    /\ dkind' = kind
    /\ dev' = event
    /\ di' = IF kind = "none" THEN 0 ELSE 1
    /\ calls' = <<>>

\* process_events takes the next message of the channel and calls mouse_event
\* or keyboard_event
ProcessEvent ==
    /\ pc = "events"
    /\ dkind = "none"
    /\ ~is_none(taken)
    /\ queue # <<>>
    /\ LET n == Normalize(Head(queue), last_mouse_pos)
       IN /\ queue' = Tail(queue)
          /\ last_mouse_pos' = n.lmp
          /\ Deliver(n.kind, n.event)
    /\ UNCHANGED <<stack, now, events, taken, acts, controls, joined, gate, cams, lock, poisoned, delta_time, last_frame, live, has_render,
                   pc, tick, steps, produced, ext, ncalls, before>>

\* flush_messages is exhausted: process_events returns
EventsDone ==
    /\ pc = "events"
    /\ dkind = "none"
    /\ queue = <<>>
    /\ Goto(After("events"))
    /\ UNCHANGED <<stack, now, events, taken, acts, controls, joined, gate, cams, lock, poisoned, delta_time, last_frame, queue,
                   last_mouse_pos, should_close, live, has_render, tick, dkind, dev, di,
                   calls, produced, ext, ncalls, before>>

\* process_input starts its loop over the controls
ProcessInput ==
    /\ pc = "input"
    /\ dkind = "none"
    /\ dkind' = "input"
    /\ dev' = NoEvent
    /\ di' = 1
    /\ calls' = <<>>
    /\ UNCHANGED <<stack, now, events, taken, acts, controls, joined, gate, cams, lock, poisoned, delta_time, last_frame, queue,
                   last_mouse_pos, should_close, live, has_render, pc, tick, steps,
                   produced, ext, ncalls, before>>

\* where a loop over the controls can be running: in process_events and
\* process_input, and in a mouse_event or keyboard_event called by the render
\* callback or by the caller outside events_loop
DispatchSites == {"events", "input", "render", "setup", "done"}

\* mutant: the registry visited from its end
VisitReversed(ctrls, i) == ctrls[Len(ctrls) + 1 - i]

\* the order in which a dispatch visits the registry: self.controls.iter()
Visit(ctrls, i) == ctrls[i]

\* control.lock(): Err when the mutex is poisoned, Ok(guard) otherwise; it
\* blocks while another owner holds the mutex
LockFails(p) == p

\* mutant: control.lock().unwrap()
OnLockErrorUnwrap == "panic"

\* what the dispatch loops do with Err: `if let Ok(..)` has no else branch
OnLockError == "skip"

DispatchLock ==
    /\ pc \in DispatchSites
    /\ dkind # "none"
    /\ di <= Len(controls)
    /\ LET c == Visit(controls, di)
       IN /\ lock[c] = "free"
          /\ IF LockFails(poisoned[c])
             THEN /\ di' = di + 1
                  /\ pc' = IF OnLockError = "skip" THEN pc ELSE "panicked"
                  /\ UNCHANGED lock
             ELSE /\ lock' = [lock EXCEPT ![c] = "loop"]
                  /\ UNCHANGED <<di, pc>>
    /\ UNCHANGED <<stack, now, events, taken, acts, controls, joined, gate, cams, poisoned, delta_time, last_frame, queue, last_mouse_pos,
                   should_close, live, has_render, tick, dkind, dev, calls, steps,
                   produced, ext, ncalls, before>>

\* mutant: the guard outlives the body of the if-let
DropGuardLeaked(l, c) == l

\* the MutexGuard goes out of scope at the end of the if-let body
DropGuard(l, c) == [l EXCEPT ![c] = "free"]

\* the call made under the guard
Handler(kind, cam, event, window, dt) ==
    CASE kind = "mouse" -> on_mouse(cam, event)
      [] kind = "key" -> on_keyboard(cam, event)
      [] kind = "input" -> on_input(cam, window, dt)

\* the call on the locked controllable; the guard is dropped at the end of the
\* if-let body
DispatchCall ==
    /\ pc \in DispatchSites
    /\ dkind # "none"
    /\ di <= Len(controls)
    /\ LET c == Visit(controls, di)
       IN /\ lock[c] = "loop"
          /\ cams' = [cams EXCEPT ![c] = Handler(dkind, cams[c], dev, live, delta_time)]
          /\ lock' = DropGuard(lock, c)
          /\ calls' = Append(calls, c)
          /\ before' = cams[c]
          /\ di' = di + 1
    /\ UNCHANGED <<stack, now, events, taken, acts, controls, joined, gate, poisoned, delta_time, last_frame, queue, last_mouse_pos,
                   should_close, live, has_render, pc, tick, dkind, dev, steps, produced,
                   ext, ncalls>>

\* the loop over the controls is exhausted
DispatchEnd ==
    /\ pc \in DispatchSites
    /\ dkind # "none"
    /\ di > Len(controls)
    /\ dkind' = "none"
    /\ di' = 0
    /\ IF dkind = "input" THEN Goto(After("input")) ELSE UNCHANGED <<pc, steps>>
    /\ UNCHANGED <<stack, now, events, taken, acts, controls, joined, gate, cams, lock, poisoned, delta_time, last_frame, queue,
                   last_mouse_pos, should_close, live, has_render, tick, dev, calls,
                   produced, ext, ncalls, before>>

\* What the holder of a &mut Window does with it in one statement: the render
\* callback during the render step and the caller outside events_loop.
\* controls and timing are public fields, glfw_window_mut() gives the backend
\* window with set_should_close, mouse_event and keyboard_event are public.
Uses == {"push", "swap", "pop", "clone", "timing", "close", "open", "mouse_event",
         "keyboard_event"}
\* registering is bounded by MaxControls, the other uses by MaxActs
Counted(u) == u # "push"
UseMouse == MouseEvent(0, 0, 0, 10, TRUE, None)
UseKey == KeyEvent("Escape", "Press")

Use(u) ==
    CASE u = "push" ->
           \* w.controls.push(ObjectPar::construct(Camera::default()))
           /\ Len(controls) < MaxControls
           /\ Unused(controls) # {}
           /\ controls' = Push(controls)
           /\ joined' = Append(joined, tick)
           /\ cams' = [cams EXCEPT ![Fresh(controls)] = DefaultCamera]
           /\ poisoned' = [poisoned EXCEPT ![Fresh(controls)] = FALSE]
           /\ UNCHANGED <<delta_time, last_frame, should_close, dkind, dev, di, calls>>
      [] u = "swap" ->
           \* w.controls.swap(0, 1)
           /\ Len(controls) >= 2
           /\ controls' = <<controls[2], controls[1]>> \o SubSeq(controls, 3, Len(controls))
           /\ joined' = <<joined[2], joined[1]>> \o SubSeq(joined, 3, Len(joined))
           /\ UNCHANGED <<cams, poisoned, delta_time, last_frame, should_close, dkind, dev,
                          di, calls>>
      [] u = "pop" ->
           \* w.controls.pop(): None, and nothing removed, when the registry is empty
           /\ controls' = IF controls = <<>> THEN controls
                          ELSE SubSeq(controls, 1, Len(controls) - 1)
           /\ joined' = IF joined = <<>> THEN joined
                        ELSE SubSeq(joined, 1, Len(joined) - 1)
           /\ UNCHANGED <<cams, poisoned, delta_time, last_frame, should_close, dkind, dev,
                          di, calls>>
      [] u = "clone" ->
           \* let c = w.controls[0].clone(); w.controls.push(c)
           /\ Len(controls) >= 1
           /\ Len(controls) < MaxControls
           /\ controls' = Append(controls, controls[1])
           /\ joined' = Append(joined, tick)
           /\ UNCHANGED <<cams, poisoned, delta_time, last_frame, should_close, dkind, dev,
                          di, calls>>
      [] u = "timing" ->
           \* w.timing = Timing::default()
           /\ delta_time' = 0
           /\ last_frame' = 0
           /\ UNCHANGED <<controls, joined, cams, poisoned, should_close, dkind, dev, di,
                          calls>>
      [] u = "close" ->
           \* w.glfw_window_mut().set_should_close(true)
           /\ should_close' = TRUE
           /\ UNCHANGED <<controls, joined, cams, poisoned, delta_time, last_frame, dkind,
                          dev, di, calls>>
      [] u = "open" ->
           \* w.glfw_window_mut().set_should_close(false)
           /\ should_close' = FALSE
           /\ UNCHANGED <<controls, joined, cams, poisoned, delta_time, last_frame, dkind,
                          dev, di, calls>>
      [] u = "mouse_event" ->
           \* w.mouse_event(..)
           /\ Deliver("mouse", UseMouse)
           /\ UNCHANGED <<controls, joined, cams, poisoned, delta_time, last_frame>>
      [] u = "keyboard_event" ->
           \* w.keyboard_event(..)
           /\ Deliver("key", UseKey)
           /\ UNCHANGED <<controls, joined, cams, poisoned, delta_time, last_frame>>

\* render(self) is running: one statement of the caller's callback
CallbackUse ==
    /\ pc = "render"
    /\ has_render
    /\ dkind = "none"
    /\ \E u \in Uses :
         /\ Counted(u) => acts < MaxActs
         /\ acts' = IF Counted(u) THEN acts + 1 ELSE acts
         /\ Use(u)
    /\ UNCHANGED <<stack, now, events, taken, gate, lock, queue, last_mouse_pos, live, has_render,
                   pc, tick, steps, produced, ext, ncalls, before>>

\* the caller's statements before events_loop is called or after it returned,
\* next to registering (Register): the same uses of the window
CallerUses == Uses \ {"push"}

CallerUse ==
    /\ pc \in {"setup", "done"}
    /\ dkind = "none"
    /\ \E u \in CallerUses :
         /\ Counted(u) => acts < MaxActs
         /\ acts' = IF Counted(u) THEN acts + 1 ELSE acts
         /\ Use(u)
    /\ UNCHANGED <<stack, now, events, taken, gate, lock, queue, last_mouse_pos, live, has_render,
                   pc, tick, steps, produced, ext, ncalls, before>>

\* render(self): the caller's callback returns
RenderCallback ==
    /\ pc = "render"
    /\ has_render
    /\ dkind = "none"
    /\ Goto(After("render"))
    /\ UNCHANGED <<stack, now, events, taken, acts, controls, joined, gate, cams, lock, poisoned,
                   delta_time, last_frame, queue, last_mouse_pos, should_close, live,
                   has_render, tick, dkind, dev, di, calls, produced, ext, ncalls, before>>

\* self.render(): the default clear
DefaultRender ==
    /\ pc = "render"
    /\ ~has_render
    /\ Goto(After("render"))
    /\ UNCHANGED <<stack, now, events, taken, acts, controls, joined, gate, cams, lock, poisoned, delta_time, last_frame, queue,
                   last_mouse_pos, should_close, live, has_render, tick, dkind, dev, di,
                   calls, produced, ext, ncalls, before>>

\* self.window.swap_buffers()
SwapBuffers ==
    /\ pc = "swap"
    /\ Goto(After("swap"))
    /\ UNCHANGED <<stack, now, events, taken, acts, controls, joined, gate, cams, lock, poisoned, delta_time, last_frame, queue,
                   last_mouse_pos, should_close, live, has_render, tick, dkind, dev, di,
                   calls, produced, ext, ncalls, before>>

\* the live state get_key and get_mouse_button report after a transition
Transition(st, ev) ==
    CASE ev.type = "MouseButton" /\ ev.key = "Left" ->
           [st EXCEPT !.button_left = (ev.action = "Press")]
      [] ev.type = "Key" /\ ev.action = "Press" ->
           [st EXCEPT !.keys = @ \cup ({ev.key} \cap MoveKeys)]
      [] ev.type = "Key" /\ ev.action = "Release" ->
           [st EXCEPT !.keys = @ \ {ev.key}]
      [] OTHER -> st

RECURSIVE Transitions(_, _)
Transitions(st, evs) ==
    IF evs = <<>> THEN st ELSE Transitions(Transition(st, Head(evs)), Tail(evs))

\* the events of a batch the backend puts on the channel: those whose polling
\* Window::new enabled
IsReported(ev) == ev.type \in Polling

\* the receiver of the event channel is alive: a running call of events_loop
\* holds it in its local `events`
ReceiverHeld ==
    \/ ~is_none(taken)
    \/ \E k \in 1..Len(stack) : ~is_none(stack[k].taken)

\* self.glfw.poll_events(): the backend takes note of what happened since the
\* last call (happened, one of the batches B), reports the events whose polling is
\* enabled, refreshes the live button and key state, and may raise the close flag
PollBatches(B) ==
    /\ pc = "poll"
    /\ \E happened \in B :
         /\ queue' = IF ReceiverHeld THEN queue \o SelectSeq(happened, IsReported)
                     ELSE <<>>
         /\ produced' = produced + Len(happened)
         /\ live' = Transitions(live, happened)
    /\ \E close \in BOOLEAN : should_close' = (should_close \/ close)
    /\ Goto(After("poll"))
    /\ UNCHANGED <<stack, now, events, taken, acts, controls, joined, gate, cams, lock, poisoned, delta_time, last_frame,
                   last_mouse_pos, has_render, tick, dkind, dev, di, calls, ext,
                   ncalls, before>>

\* the same, with what happened any sequence over A within the events left
PollEvents(A) == PollBatches(SeqsUpTo(A, MaxEvents - produced))

TimingSteady == Timing(SteadyFrame)
PollRaw == PollEvents(RawEvents)
PollFew == PollEvents(FewEvents)

\* ------------------------------------------------------- the external owner
\* another holder of the Arc<Mutex<..>> takes a registered controllable's lock
ExtLock ==
    /\ ext < MaxExt
    /\ \E i \in 1..Len(controls) :
         LET c == controls[i]
         IN /\ lock[c] = "free"
            /\ lock' = [lock EXCEPT ![c] = "ext"]
    /\ ext' = ext + 1
    /\ UNCHANGED <<stack, now, events, taken, acts, controls, joined, gate, cams, poisoned, delta_time, last_frame, queue, last_mouse_pos,
                   should_close, live, has_render, pc, tick, dkind, dev, di, calls, steps,
                   produced, ncalls, before>>

\* what it does with the &mut access its guard gives
ExtInputs == {MouseEvent(0, 0, 0, 1000, TRUE, None)}

\* it calls a handler of the controllable it holds
ExtMutate ==
    /\ \E c \in Ids, m \in ExtInputs :
         /\ lock[c] = "ext"
         /\ cams' = [cams EXCEPT ![c] = on_mouse(cams[c], m)]
    /\ UNCHANGED <<stack, now, events, taken, acts, controls, joined, gate, lock, poisoned, delta_time,
                   last_frame, queue, last_mouse_pos, should_close, live, has_render, pc,
                   tick, dkind, dev, di, calls, steps, produced, ext, ncalls, before>>

\* it drops its guard
ExtUnlock ==
    /\ \E c \in Ids :
         /\ lock[c] = "ext"
         /\ lock' = [lock EXCEPT ![c] = "free"]
    /\ UNCHANGED <<stack, now, events, taken, acts, controls, joined, gate, cams, poisoned, delta_time, last_frame, queue, last_mouse_pos,
                   should_close, live, has_render, pc, tick, dkind, dev, di, calls, steps,
                   produced, ext, ncalls, before>>

\* it panics while holding the guard: the mutex is poisoned and released
ExtPanic ==
    /\ \E c \in Ids :
         /\ lock[c] = "ext"
         /\ lock' = [lock EXCEPT ![c] = "free"]
         /\ poisoned' = [poisoned EXCEPT ![c] = TRUE]
    /\ UNCHANGED <<stack, now, events, taken, acts, controls, joined, gate, cams, delta_time, last_frame, queue, last_mouse_pos,
                   should_close, live, has_render, pc, tick, dkind, dev, di, calls, steps,
                   produced, ext, ncalls, before>>

\* ------------------------------------------------- the camera on its own
\* A Camera { constrain_pitch, ..Default::default() } driven by direct calls of
\* its InputControl methods, with inputs the frame loop's small alphabet does
\* not produce.
ScrollInputs == {-1000, -44, -1, 1, 44, 1000}
MotionInputs == {<<50, 50>>, <<0, 2000>>, <<0, -2000>>, <<-300, 890>>, <<0, -1>>}
MouseInputs ==
    {MouseEvent(0, 0, 0, d, TRUE, None) : d \in ScrollInputs}
    \cup {MouseEvent(0, 0, o[1], o[2], FALSE, None) : o \in MotionInputs}
    \cup {MouseEvent(0, 0, 0, 0, FALSE, Some(MouseButtonEvent("Left", "Press")))}
LiveInputs == [button_left : BOOLEAN, keys : {{}, {"W", "A"}}]

CamInit ==
    \E cp \in BOOLEAN : Start("direct", <<1>>, [DefaultCamera EXCEPT !.constrain_pitch = cp])

Call(kind, event, window, dt) ==
    /\ pc = "direct"
    /\ ncalls < MaxCalls
    /\ ncalls' = ncalls + 1
    /\ before' = cams[1]
    /\ cams' = [cams EXCEPT ![1] = Handler(kind, cams[1], event, window, dt)]
    /\ dkind' = kind
    /\ dev' = event
    /\ live' = window
    /\ delta_time' = dt
    /\ UNCHANGED <<stack, now, events, taken, acts, controls, joined, gate, lock, poisoned, last_frame, queue, last_mouse_pos,
                   should_close, has_render, pc, tick, di, calls, steps, produced, ext>>

CallOnMouse == \E m \in MouseInputs : Call("mouse", m, live, delta_time)
CallOnKeyboard == \E a \in Actions : Call("key", KeyEvent("W", a), live, delta_time)
CallOnInput == \E w \in LiveInputs, dt \in FrameTimes : Call("input", NoEvent, w, dt)

CamNext == CallOnMouse \/ CallOnKeyboard \/ CallOnInput

SpecCam == CamInit /\ [][CamNext]_vars

\* the camera's public movement method called directly, next to the handlers
Directions == {"FORWARD", "BACKWARD", "LEFT", "RIGHT"}
MoveTimes == {5, 10}
CallMovement ==
    /\ pc = "direct"
    /\ ncalls < MaxCalls
    /\ \E d \in Directions, dt \in MoveTimes :
         /\ cams' = [cams EXCEPT ![1] = movement(cams[1], d, dt)]
         /\ dev' = [direction |-> d]
         /\ delta_time' = dt
    /\ ncalls' = ncalls + 1
    /\ before' = cams[1]
    /\ dkind' = "move"
    /\ UNCHANGED <<stack, now, events, taken, acts, controls, joined, gate, lock, poisoned, last_frame, queue, last_mouse_pos,
                   should_close, live, has_render, pc, tick, di, calls, steps, produced, ext>>

MoveNext == CallOnMouse \/ CallOnInput \/ CallMovement

SpecMove == CamInit /\ [][MoveNext]_vars

\* the camera turned by direct calls, with cursor offsets over the whole range
\* of yaw and pitch
WideMotion ==
    {MouseEvent(0, 0, dx, dy, FALSE, None) :
        dx \in {-900, 0, 370, 900}, dy \in {-2000, -445, 123, 890}}
CallRotate == \E m \in WideMotion : Call("mouse", m, live, delta_time)

BasisNext == CallOnInput \/ CallRotate

SpecBasis == CamInit /\ [][BasisNext]_vars

\* one step of the frame loop's thread, but for the backend calls that take input
Frame ==
    \/ Register
    \/ StartLoop
    \/ LoopCheck
    \/ ProcessEvent
    \/ EventsDone
    \/ ProcessInput
    \/ DispatchLock
    \/ DispatchCall
    \/ DispatchEnd
    \/ CallbackUse
    \/ RenderCallback
    \/ CallerUse
    \/ DefaultRender
    \/ SwapBuffers

\* the frame loop alone, at a steady frame time
Next == Frame \/ TimingSteady \/ PollRaw

Spec == Init /\ [][Next]_vars

\* the frame loop and an external owner of the controllables
NextExt == Frame \/ TimingSteady \/ PollFew \/ ExtLock \/ ExtMutate \/ ExtUnlock \/ ExtPanic

SpecExt == Init /\ [][NextExt]_vars

\* the frame loop at uneven frame times, with movement keys held down since
\* before it started and the left button up
TimingUneven == Timing(HoldFrameTimes)
PollHold == PollEvents(HoldEvents)

HoldInit ==
    \E ks \in HeldKeySets :
        StartLive("setup", <<>>, DefaultCamera, [button_left : {FALSE}, keys : {ks}])

NextHold == Frame \/ TimingUneven \/ PollHold

SpecHold == HoldInit /\ [][NextHold]_vars

\* the frame loop with the left button pressed or released around a cursor
\* move: what happens at the backend between two poll_events calls is one of
\* these batches
GateBatches ==
    {<<>>,
     <<CursorPos(130, 0)>>,
     <<MouseButton("Left", "Press")>>,
     <<MouseButton("Left", "Release")>>,
     <<CursorPos(100, 900), MouseButton("Left", "Press"), CursorPos(130, 0)>>,
     <<CursorPos(100, 900), CursorPos(130, 0), MouseButton("Left", "Release")>>}
PollGate == PollBatches(GateBatches)

NextGate == Frame \/ TimingSteady \/ PollGate

SpecGate == Init /\ [][NextGate]_vars

TypeOK == pc \in {"setup", "direct", "panicked", "while", "timing", "events", "input", "render",
                  "swap", "poll", "done"}

\* ------------------------------------------------------------------ claims
IsPrefix(p, q) == Len(p) <= Len(q) /\ SubSeq(q, 1, Len(p)) = p
Min(a, b) == IF a < b THEN a ELSE b
Max(a, b) == IF a > b THEN a ELSE b
TickOrder == <<"timing", "events", "input", "render", "swap", "poll">>
InTick == pc \in {"timing", "events", "input", "render", "swap", "poll"}
Dispatching == pc \in DispatchSites /\ dkind # "none"

\* at each point of a dispatch the controllables called so far are exactly the
\* first di-1 entries of the registry, in the registry's order
C1_CallsInRegistrationOrder ==
    Dispatching => /\ di \in 1..(Len(controls) + 1)
                   /\ calls = SubSeq(controls, 1, di - 1)

\* C1 as claimed: every dispatch (mouse event, keyboard event, continuous poll)
\* calls the controllables in registration order, all of them get the same
\* event, and the registry is only ever extended at its end, so the order is
\* the same on every tick.
C1_DispatchOrder ==
    /\ []C1_CallsInRegistrationOrder
    /\ [][(Dispatching /\ dkind' # "none") => (dkind' = dkind /\ dev' = dev)]_vars
    /\ [][IsPrefix(controls, controls')]_vars

\* a statement of the caller or of the render callback, made between dispatches
C1_WindowUse ==
    /\ pc \in {"setup", "render", "done"}
    /\ pc' = pc
    /\ dkind = "none"
    /\ lock' = lock

\* C1 (amended): every dispatch calls the controllables in the order the
\* registry has while it runs, all of them get the same event, and the
\* registry does not change during a dispatch; the loop's own steps never
\* change the registry: it changes only by a statement of the caller or of the
\* render callback, and it keeps its order as long as those only append.
C1_RegistryOrder ==
    /\ []C1_CallsInRegistrationOrder
    /\ [][(Dispatching /\ dkind' # "none") => (dkind' = dkind /\ dev' = dev)]_vars
    /\ [][Dispatching => controls' = controls]_vars
    /\ [][controls' # controls => C1_WindowUse]_vars
    /\ [][(controls' # controls /\ acts' = acts) => IsPrefix(controls, controls')]_vars

\* C1 witness: in the second tick a mouse event has reached three controllables
\* in the order of their registration
C1_WitnessRegistered ==
    /\ tick = 2
    /\ dkind = "mouse"
    /\ Len(controls) = 3
    /\ di = 4
    /\ calls = <<1, 2, 3>>

\* C1 witness: the render callback of the first tick swapped the first two of
\* three controllables registered before the loop, and in the second tick a
\* mouse event has reached them in the order the registry has now
C1_Witness ==
    /\ tick = 2
    /\ pc = "events"
    /\ dkind = "mouse"
    /\ controls = <<2, 1, 3>>
    /\ joined = <<0, 0, 0>>
    /\ di = 4
    /\ calls = <<2, 1, 3>>

\* C2: within a tick the steps begin in the order timing, events, input,
\* render, swap, poll, each once; the events taken off the channel are
\* dispatched only while the events step is the latest step begun, each to
\* every registered controllable; the channel is empty from the start of the
\* continuous poll to the tick's poll_events; and when the render step begins
\* the continuous poll has called every registered controllable.  (A dispatch
\* the render callback makes itself is a statement of the callback, not an
\* event of the tick.)
C2_TickOrder ==
    /\ [](IsPrefix(steps, TickOrder))
    /\ [](InTick => steps[Len(steps)] = pc)
    /\ []((pc \in {"while", "done"} /\ tick > 0) => steps = TickOrder)
    /\ []((InTick /\ pc # "render" /\ dkind \in {"mouse", "key"})
            => steps = <<"timing", "events">>)
    /\ []((pc = "events" /\ dkind \in {"mouse", "key"} /\ di > Len(controls))
            => calls = controls)
    /\ [](dkind = "input" => steps = <<"timing", "events", "input">>)
    /\ [](pc \in {"input", "render", "swap", "poll"} => queue = <<>>)
    /\ [][(pc # "render" /\ pc' = "render") => (dkind' = "none" /\ calls' = controls')]_vars

\* C3: taking Key(Escape, Press) off the channel sets should_close and starts
\* the dispatch of that very KeyEvent, which reaches every registered
\* controllable; taking any other key event leaves should_close as it was.
C3_QuitKey ==
    /\ [][(pc = "events" /\ dkind = "none" /\ queue # <<>> /\ Head(queue).type = "Key")
            => /\ dkind' = "key"
               /\ dev' = KeyEvent(Head(queue).key, Head(queue).action)
               /\ di' = 1
               /\ should_close' = (should_close \/ (Head(queue).key = "Escape"
                                                     /\ Head(queue).action = "Press"))]_vars
    /\ []((dkind = "key" /\ di > Len(controls)) => calls = controls)
    /\ []((dkind = "key" /\ dev = KeyEvent("Escape", "Press")) => should_close)

\* C3 witness: Escape/Press has closed the window and has been delivered to
\* all of three controllables
C3_Witness ==
    /\ dkind = "key"
    /\ dev = KeyEvent("Escape", "Press")
    /\ should_close
    /\ Len(controls) = 3
    /\ di > Len(controls)
    /\ calls = controls

\* what is left of the loop once it is closing, as a number: the steps of the
\* tick still to begin, then the events still on the channel, then the calls
\* still to make in the dispatch in flight
DispatchLeft ==
    IF dkind = "none"
    THEN IF pc = "input" THEN 2 * MaxControls + 2 ELSE 0
    ELSE 1 + 2 * (Len(controls) + 1 - di) - (IF \E c \in Ids : lock[c] = "loop" THEN 1 ELSE 0)
StepsLeft ==
    CASE pc = "done" -> 0
      [] pc = "while" -> 1
      [] pc \in {"timing", "events", "input", "render", "swap", "poll"} -> 8 - Len(steps)
      [] OTHER -> 8
ClosingRank ==
    StepsLeft * (MaxEvents + 2) * (2 * MaxControls + 3)
      + Len(queue) * (2 * MaxControls + 3)
      + DispatchLeft

\* some step of the loop can be taken (the handler call made under a held guard
\* is a total function: it is enabled as soon as the loop holds the lock)
C4_StepEnabled ==
    \/ ENABLED LoopCheck
    \/ ENABLED TimingSteady
    \/ ENABLED ProcessEvent
    \/ ENABLED EventsDone
    \/ ENABLED ProcessInput
    \/ ENABLED DispatchLock
    \/ (Dispatching /\ di <= Len(controls) /\ lock[controls[di]] = "loop")
    \/ ENABLED DispatchEnd
    \/ ENABLED RenderCallback
    \/ ENABLED DefaultRender
    \/ ENABLED SwapBuffers
    \/ ENABLED PollRaw

\* events_loop is running
C4_InLoop == pc \notin {"setup", "done"}
\* a statement of the render callback (the callback's return is none); when
\* the statement is a call of events_loop, its first step and its return
C4_CallbackStatement ==
    \/ pc = "render" /\ pc' = "render" /\ dkind = "none"
    \/ stack' # stack
\* the steps of a complete tick: the six of the first call of events_loop, or
\* those of a later call, which has no receiver to drain
C4_TickRun ==
    steps = TickOrder \/ steps = <<"timing", "input", "render", "swap", "poll">>

\* what C4 says of the loop's own steps: a call of events_loop returns only
\* from the iteration boundary, with the close flag set, so a tick in which the close
\* request arose runs all its steps, in order; no tick starts while the close
\* flag is set; and while the flag stays set the loop terminates: it is never
\* stuck, and each of its steps lowers ClosingRank, a natural number.
C4_RunsToBoundary ==
    /\ [][(pc' = "done" /\ pc # "done") => (pc = "while" /\ should_close)]_vars
    /\ [][Len(stack') < Len(stack) => (pc = "while" /\ should_close)]_vars
    /\ []((pc = "done" /\ tick > 0) => C4_TickRun)
    /\ [][should_close => tick' = tick]_vars
    /\ [][(should_close /\ InTick /\ pc' # pc /\ stack' = stack) => pc' = After(pc)]_vars
    /\ []((should_close /\ C4_InLoop) => C4_StepEnabled)
    /\ [](ClosingRank >= 0)
    /\ [][(should_close /\ should_close' /\ C4_InLoop /\ ~C4_CallbackStatement)
            => ClosingRank' < ClosingRank]_vars

\* C4 as claimed: Closing is terminal, a close request is never taken back
\* while events_loop runs, and from the request on the loop runs to the
\* iteration boundary and ends.
C4_CooperativeClose ==
    /\ [][(should_close /\ C4_InLoop) => should_close']_vars
    /\ C4_RunsToBoundary

\* C4 (amended): the loop never lowers the close flag itself, only a statement
\* of the render callback or of the caller does (set_should_close(false)); as
\* long as the flag stays set the loop runs to the iteration boundary and
\* ends; and events_loop, once it has returned, runs again only when the
\* caller calls it again.
C4_CloseUnlessLowered ==
    /\ [][(should_close /\ ~should_close')
            => (dkind = "none" /\ pc' = pc /\ pc \in {"render", "setup", "done"}
                /\ acts' = acts + 1)]_vars
    /\ [][(pc = "done" /\ pc' # "done") => (pc' = "while" /\ dkind = "none")]_vars
    /\ C4_RunsToBoundary

\* C4 witness: the quit key closed the window during the events step of the
\* second tick, and the tick has gone on to its swap step
C4_Witness ==
    /\ should_close
    /\ tick = 2
    /\ pc = "swap"

\* C5: a CursorPos event is dispatched with offset (0,0) when last_mouse_pos is
\* unset and with (x_pos - x_last, y_last - y_pos) otherwise, and sets
\* last_mouse_pos to its position; nothing but a CursorPos event changes
\* last_mouse_pos.
C5_CursorStep ==
    (pc = "events" /\ dkind = "none" /\ queue # <<>> /\ Head(queue).type = "CursorPos")
      => LET e == Head(queue)
         IN /\ dkind' = "mouse"
            /\ dev'.x_pos = e.x /\ dev'.y_pos = e.y
            /\ ~dev'.is_scroll /\ dev'.button_event = None
            /\ IF last_mouse_pos = None
               THEN dev'.x_offset = 0 /\ dev'.y_offset = 0
               ELSE /\ dev'.x_offset = e.x - last_mouse_pos[1][1]
                    /\ dev'.y_offset = last_mouse_pos[1][2] - e.y
            /\ last_mouse_pos' = Some(<<e.x, e.y>>)
C5_MouseOffsets ==
    /\ [][C5_CursorStep]_vars
    /\ [][last_mouse_pos' # last_mouse_pos
            => (pc = "events" /\ queue # <<>> /\ Head(queue).type = "CursorPos")]_vars

\* C5 witness: the second cursor event, from (100,900) to (130,0), is being
\* dispatched with offsets (30, 900)
C5_Witness ==
    /\ dkind = "mouse"
    /\ dev = MouseEvent(130, 0, 30, 900, FALSE, None)
    /\ last_mouse_pos = Some(<<130, 0>>)
\* The camera under direct calls (SpecCam): cams[1] is the camera, before is
\* the camera as it was when the latest call was made, dkind and dev are that
\* call's kind and event.
LatestScroll == ncalls > 0 /\ dkind = "mouse" /\ dev.is_scroll
LatestMotion == ncalls > 0 /\ dkind = "mouse" /\ ~dev.is_scroll

\* C6: from the default zoom 45, after any sequence of mouse events (scrolls of
\* any size and sign, motion, button events) and polls, zoom is in [1,45].
C6_ZoomInRange ==
    /\ cams[1].zoom >= 1
    /\ cams[1].zoom <= 45
    /\ before.zoom >= 1
    /\ before.zoom <= 45

\* C6 witness: a scroll of +1000 took zoom from 45 to 1 and the next, of
\* -1000, took it from 1 to 45
C6_Witness ==
    /\ LatestScroll
    /\ ncalls >= 2
    /\ dev.y_offset = -1000
    /\ before.zoom = 1
    /\ cams[1].zoom = 45

\* C7: a scroll with vertical offset d leaves zoom = min(45, max(1, zoom - d)),
\* zoom being the value before the call, and touches no other field.
C7_ClampAfterApply ==
    LatestScroll =>
        /\ cams[1].zoom = Min(45, Max(1, before.zoom - dev.y_offset))
        /\ cams[1] = [before EXCEPT !.zoom = cams[1].zoom]

\* C7 witness: from zoom 44 a scroll of +1000 overshoots and leaves zoom
\* exactly 1
C7_Witness ==
    /\ LatestScroll
    /\ before.zoom = 44
    /\ dev.y_offset = 1000
    /\ cams[1].zoom = 1

\* C8: while constrain_pitch is set pitch stays within [-89,89] degrees, and a
\* motion event that would take it beyond leaves it exactly on the bound.
C8_PitchClamp ==
    /\ cams[1].constrain_pitch =>
           (cams[1].pitch >= -890 /\ cams[1].pitch <= 890)
    /\ (LatestMotion /\ before.rotate_enabled /\ before.constrain_pitch) =>
           LET target == before.pitch + dev.y_offset * before.mouse_sensitivity
           IN /\ target > 890 => cams[1].pitch = 890
              /\ target < -890 => cams[1].pitch = -890
              /\ (target >= -890 /\ target <= 890) => cams[1].pitch = target

\* C8 witness: with rotation enabled and pitch 0, a vertical offset of 2000
\* (200 degrees) left pitch at 89 degrees
C8_Witness ==
    /\ LatestMotion
    /\ before.rotate_enabled
    /\ before.constrain_pitch
    /\ before.pitch = 0
    /\ dev.y_offset = 2000
    /\ cams[1].pitch = 890

\* C9: a non-scroll mouse event received while rotate_enabled is false leaves
\* the camera as it was: yaw, pitch, front, right, up, position, zoom and every
\* other field.
C9_RotationGate ==
    (LatestMotion /\ ~before.rotate_enabled) => cams[1] = before

\* C9 witness: a motion event with offset (50,50) was received with rotation
\* disabled, after an earlier call
C9_Witness ==
    /\ LatestMotion
    /\ ncalls >= 2
    /\ ~before.rotate_enabled
    /\ dev.x_offset = 50
    /\ dev.y_offset = 50

\* C10: a dispatch never calls a registered controllable whose mutex is
\* poisoned, nor changes its state (only an owner that took the poisoned mutex
\* again can); it does not stop at it; and when the dispatch is through
\* the registry it has called, in registration order, every controllable but
\* those that are poisoned.
Called(c) == \E k \in 1..Len(calls) : calls[k] = c
C10_SkipPoisoned ==
    /\ [](pc # "panicked")
    /\ [][\A i \in 1..Len(controls) :
             LET c == controls[i]
             IN (poisoned[c] /\ lock[c] # "ext")
                  => (cams'[c] = cams[c] /\ lock'[c] # "loop"
                      /\ (calls' = calls \/ ~Dispatching \/ calls'[Len(calls')] # c))]_vars
    /\ [][(Dispatching /\ di <= Len(controls) /\ poisoned[controls[di]]
             /\ lock[controls[di]] = "free" /\ di' # di)
            => (di' = di + 1 /\ pc' = pc /\ dkind' = dkind /\ dev' = dev /\ calls' = calls)]_vars
    /\ []((Dispatching /\ di > Len(controls)) =>
            /\ \A i \in 1..Len(controls) : Called(controls[i]) \/ poisoned[controls[i]]
            /\ \A k \in 1..Len(calls) : \A j \in 1..Len(calls) :
                  k < j => \E a \in 1..Len(controls) : \E b \in 1..Len(controls) :
                             a < b /\ controls[a] = calls[k] /\ controls[b] = calls[j])

\* C10 witness: a mouse event went through a registry of three whose second
\* controllable is poisoned, and reached the first and the third
C10_Witness ==
    /\ dkind = "mouse"
    /\ Len(controls) = 3
    /\ di > Len(controls)
    /\ poisoned[2]
    /\ calls = <<1, 3>>
\* a dispatch of the frame loop has reached a controllable whose mutex another
\* owner holds
C11_Contended ==
    /\ pc \in {"events", "input"}
    /\ dkind # "none"
    /\ di <= Len(controls)
    /\ lock[Visit(controls, di)] = "ext"

\* C11: when the dispatch reaches a controllable whose lock another owner
\* holds, the loop is not held up by it: its next step is there to take, and
\* it is the skip, which moves on to the next controllable without a call and
\* without the lock.
C11_ContentionSkips ==
    C11_Contended =>
        ENABLED (DispatchLock /\ di' = di + 1 /\ calls' = calls /\ lock' = lock)

\* the controllables whose mutex the loop holds
HeldByLoop == {c \in Ids : lock[c] = "loop"}

\* a mouse_event or keyboard_event the render callback or the caller calls
\* itself is running
C12_OwnDispatch == pc \in {"render", "setup", "done"} /\ dkind # "none"

\* C12: the loop holds at most one controllable's lock, and only that of the
\* controllable the dispatch in flight stands at; a lock the loop holds is
\* given up by the very next step of the loop, which is the single call on
\* that controllable; the loop takes a lock only while it holds none; and it
\* holds none outside the two dispatching steps: none when the render callback
\* is entered, while it runs its own statements and when it returns (a lock is
\* taken in the render step only inside a dispatch the callback itself calls,
\* under the same discipline), none during swap_buffers and poll_events.
C12_LockDiscipline ==
    /\ [](Cardinality(HeldByLoop) <= 1)
    /\ [](\A c \in HeldByLoop : Dispatching /\ di <= Len(controls) /\ controls[di] = c)
    /\ []((pc \notin {"events", "input"} /\ ~C12_OwnDispatch) => HeldByLoop = {})
    /\ [][\A c \in HeldByLoop :
             /\ lock'[c] = "free"
             /\ calls' = Append(calls, c)
             /\ di' = di + 1]_<<pc, dkind, di, calls, cams, queue, steps, tick, controls>>
    /\ [][HeldByLoop' # HeldByLoop => (HeldByLoop = {} \/ HeldByLoop' = {})]_vars

\* C12 witness: in the continuous poll of the second tick the loop holds the
\* lock of the second of three controllables, and no other
C12_Witness ==
    /\ tick = 2
    /\ dkind = "input"
    /\ Len(controls) = 3
    /\ lock = [c \in Ids |-> IF c = 2 THEN "loop" ELSE "free"]
    /\ calls = <<1>>

\* C13: taking a Scroll event off the channel starts the dispatch of a
\* MouseEvent with is_scroll set, the raw deltas as offsets (same sign), no
\* button payload and the last known cursor position, (0,0) when there is
\* none, and leaves last_mouse_pos as it was; the event reaches every
\* registered controllable.
C13_ScrollStep ==
    (pc = "events" /\ dkind = "none" /\ queue # <<>> /\ Head(queue).type = "Scroll")
      => LET e == Head(queue)
         IN /\ dkind' = "mouse"
            /\ di' = 1
            /\ dev'.is_scroll
            /\ dev'.x_offset = e.x /\ dev'.y_offset = e.y
            /\ dev'.button_event = None
            /\ IF last_mouse_pos = None
               THEN dev'.x_pos = 0 /\ dev'.y_pos = 0
               ELSE dev'.x_pos = last_mouse_pos[1][1] /\ dev'.y_pos = last_mouse_pos[1][2]
            /\ last_mouse_pos' = last_mouse_pos
            /\ queue' = Tail(queue)
C13_ScrollNormalization ==
    /\ [][C13_ScrollStep]_vars
    /\ []((dkind = "mouse" /\ dev.is_scroll /\ di > Len(controls)) => calls = controls)

\* C13 witness: after the cursor went to (130,0), the scroll (5,-1000) has
\* been delivered to all of two controllables, with that position
C13_Witness ==
    /\ dkind = "mouse"
    /\ dev = MouseEvent(130, 0, 5, -1000, TRUE, None)
    /\ last_mouse_pos = Some(<<130, 0>>)
    /\ Len(controls) = 2
    /\ calls = controls

\* a second case of C13: a scroll before any cursor motion is dispatched with
\* position (0,0) and last_mouse_pos stays unset
C13_WitnessUnset ==
    /\ dkind = "mouse"
    /\ dev = MouseEvent(0, 0, 0, 1000, TRUE, None)
    /\ last_mouse_pos = None

\* the events put on the channel by the step
C14_NewOnChannel ==
    IF Len(queue') >= Len(queue)
    THEN SubSeq(queue', Len(queue) + 1, Len(queue'))
    ELSE <<>>

\* C14: a press or release transition of the left mouse button at the backend
\* is delivered as a discrete event: the step in which the button's state
\* changes puts a MouseButton event with the new state's action on the channel
\* (from which process_events dispatches it, as a MouseEvent carrying the
\* MouseButtonEvent, to every controllable).
C14_ButtonEventsDelivered ==
    [][live'.button_left # live.button_left
         => \E k \in 1..Len(C14_NewOnChannel) :
                C14_NewOnChannel[k] =
                    MouseButton("Left", IF live'.button_left THEN "Press" ELSE "Release")]_vars

\* the entries of the registry stand in the order of their registration
C15_InOrder ==
    \A j \in 1..Len(joined) : \A k \in 1..Len(joined) : j < k => joined[j] <= joined[k]

\* C15: the registry grows only by one entry at its end, by a statement of the
\* caller or of the render callback; a controllable registered in the render
\* step of a tick is not called by the dispatches of that tick, which are over
\* (a dispatch is running in the rest of the tick only if the callback itself
\* calls mouse_event or keyboard_event, and short of that its state is still
\* the constructed one); in every later tick each dispatch, of an event or of
\* the continuous poll, calls it at its place in the registry, which is after
\* all the controllables registered before it unless a statement of the
\* caller or of the callback reorders the registry.
C15_DynamicRegistration ==
    /\ [][Len(controls') > Len(controls)
            => /\ C1_WindowUse
               /\ Len(controls') = Len(controls) + 1
               /\ IsPrefix(controls, controls')
               /\ joined' = Append(joined, tick)]_vars
    /\ [](Len(joined) = Len(controls))
    /\ [][(C15_InOrder /\ ~C15_InOrder') => (C1_WindowUse /\ acts' = acts + 1)]_vars
    /\ [](\A k \in 1..Len(controls) :
             (tick > 0 /\ joined[k] = tick)
               => /\ pc \in {"render", "swap", "poll", "while", "done"}
                  /\ dkind # "none" => C12_OwnDispatch
                  /\ acts = 0 => (~Called(controls[k]) /\ cams[controls[k]] = DefaultCamera))
    /\ [](\A k \in 1..Len(controls) :
             (joined[k] < tick /\ Dispatching /\ di > k)
               => (Len(calls) >= k /\ calls[k] = controls[k]))
    /\ []((Dispatching /\ di > Len(controls)) => calls = controls)

\* C15 witness: a controllable registered by the render callback of the first
\* tick is the second of the registry and, in the second tick, has received a
\* mouse event after the controllable registered before the loop
C15_Witness ==
    /\ tick = 2
    /\ controls = <<1, 2>>
    /\ joined = <<0, 1>>
    /\ dkind = "mouse"
    /\ calls = <<1, 2>>

\* a second case of C15: the same controllable in the continuous poll
C15_WitnessPoll ==
    /\ tick = 2
    /\ joined = <<0, 1>>
    /\ dkind = "input"
    /\ calls = <<1, 2>>

\* Held keys (SpecHold).  The backend time through which the k-th controllable
\* of the registry has been moved: the time of the latest frame once this
\* tick's continuous poll has called it, and the time of the frame before
\* until then.
C16_MovedThrough(k) ==
    IF pc = "events" \/ (pc = "input" /\ ~(dkind = "input" /\ di > k))
    THEN last_frame - delta_time
    ELSE last_frame
C16_Held(key) == IF key \in live.keys THEN 1 ELSE 0
\* where a camera moved for time t by the held keys stands
C16_Expected(cam, t) ==
    VAdd(VAdd(DefaultCamera.position,
              VScale(cam.front, cam.movement_speed * t * (C16_Held("W") - C16_Held("S")))),
         VScale(cam.right, cam.movement_speed * t * (C16_Held("D") - C16_Held("A"))))
C16_AfterPoll == tick > 0 /\ pc \in {"render", "swap", "poll", "while", "done"}

\* the move one continuous poll makes with the held keys in a frame of time t
C16_Step(cam, t) ==
    VAdd(VScale(cam.front, cam.movement_speed * t * (C16_Held("W") - C16_Held("S"))),
         VScale(cam.right, cam.movement_speed * t * (C16_Held("D") - C16_Held("A"))))

\* C16: each tick's delta_time is the backend time now less last_frame, and
\* last_frame is then now; each continuous poll moves the camera by
\* movement_speed * delta_time along front for W, against it for S, and the
\* like along right for D and A, the held keys adding up; so (timing and
\* registry being left to the loop) a camera registered before the loop
\* started stands at its start plus movement_speed * (the backend time
\* elapsed, the sum of the delta_times of the ticks) along those directions,
\* whatever the frame times were: with W alone held, after 2 s it is 5.0 units
\* along front from its start, (0,0,3) + 5 * (0,0,-1).
C16_HeldKeyMovement ==
    /\ [][(pc = "timing" /\ pc' # pc)
            => (delta_time' = now' - last_frame /\ last_frame' = now' /\ now' > now)]_vars
    /\ [][(dkind = "input" /\ calls' # calls)
            => LET c == controls[di]
               IN cams'[c].position = VAdd(cams[c].position, C16_Step(cams[c], delta_time))]_vars
    /\ [](acts = 0 => last_frame = now)
    /\ [](acts = 0 =>
            \A k \in 1..Len(controls) :
                joined[k] = 0 =>
                    cams[controls[k]].position
                        = C16_Expected(cams[controls[k]], C16_MovedThrough(k)))
    /\ []((acts = 0 /\ C16_AfterPoll /\ live.keys = {"W"} /\ now = 20)
            => \A k \in 1..Len(controls) :
                   joined[k] = 0 => cams[controls[k]].position = Vec3(0, 0, -200000))

\* C16 witness: W held for 2 s, split into frames of 0.5 s and 1.5 s; the
\* camera has moved from z = 3 to z = -2
C16_Witness ==
    /\ C16_AfterPoll
    /\ acts = 0
    /\ live.keys = {"W"}
    /\ tick = 2
    /\ delta_time = 15
    /\ now = 20
    /\ Len(controls) >= 1
    /\ joined[1] = 0
    /\ cams[1].position = Vec3(0, 0, -200000)

\* the same 2 s as two frames of 1 s
C16_WitnessEven ==
    /\ C16_AfterPoll
    /\ live.keys = {"W"}
    /\ tick = 2
    /\ delta_time = 10
    /\ last_frame = 20
    /\ Len(controls) >= 1
    /\ joined[1] = 0
    /\ cams[1].position = Vec3(0, 0, -200000)

\* W and D held together for 1.5 s: 3.75 units along front and 3.75 along right
C16_WitnessTwoKeys ==
    /\ C16_AfterPoll
    /\ live.keys = {"W", "D"}
    /\ last_frame = 15
    /\ Len(controls) >= 1
    /\ joined[1] = 0
    /\ cams[1].position = Vec3(375000, 0, -75000)

\* The camera moved by direct calls (SpecMove): dkind = "move" after a call of
\* movement, with dev.direction and delta_time its arguments.
LatestMove == ncalls > 0 /\ dkind = "move"
C17_Times == {1, 5, 10}

\* C17: from every state the camera reaches, for every direction, a move with
\* dt1 followed by a move with dt2 leaves the camera where one move with
\* dt1 + dt2 does (so once with 1.0 s is twice with 0.5 s); and a call of
\* movement changes position, by movement_speed * dt along front or right
\* with the direction's sign, and no other field.
C17_FrameRateIndependent ==
    /\ \A d \in Directions : \A dt1 \in C17_Times : \A dt2 \in C17_Times :
           movement(movement(cams[1], d, dt1), d, dt2) = movement(cams[1], d, dt1 + dt2)
    /\ \A d \in Directions :
           movement(movement(cams[1], d, 5), d, 5).position = movement(cams[1], d, 10).position
    /\ LatestMove =>
           LET axis == IF dev.direction \in {"FORWARD", "BACKWARD"} THEN before.front
                       ELSE before.right
               sign == IF dev.direction \in {"FORWARD", "RIGHT"} THEN 1 ELSE -1
           IN cams[1] = [before EXCEPT !.position =
                             VAdd(before.position,
                                  VScale(axis, sign * before.movement_speed * delta_time))]

\* C17 witness: two forward moves of 0.5 s each have taken the camera off its
\* start to where one move of 1.0 s from the start takes it
C17_Witness ==
    /\ LatestMove
    /\ ncalls >= 2
    /\ dev.direction = "FORWARD"
    /\ delta_time = 5
    /\ before.position # DefaultCamera.position
    /\ cams[1].position
         = VAdd(before.position, VScale(before.front, before.movement_speed * 5))
    /\ before.position
         = VAdd(DefaultCamera.position, VScale(before.front, before.movement_speed * 5))
    /\ cams[1].position = movement([before EXCEPT !.position = DefaultCamera.position],
                                   "FORWARD", 10).position

\* a second case of C17: a move to the right after a rotation
C17_WitnessRotated ==
    /\ LatestMove
    /\ dev.direction = "RIGHT"
    /\ before.yaw # DefaultCamera.yaw
    /\ before.pitch # 0
    /\ cams[1].position # before.position

\* The basis (SpecBasis).  Vectors are in thousandths, so a dot product of two
\* unit vectors is in millionths: a unit vector has v.v = 1000000.
Abs(x) == IF x < 0 THEN -x ELSE x
C18_Basis(cam) == <<cam.front, cam.right, cam.up>>
\* pairwise orthogonal within 0.002 and of length 1 within 0.2 %
C18_Orthonormal(cam) ==
    /\ Abs(VDot(cam.front, cam.right)) <= 2000
    /\ Abs(VDot(cam.front, cam.up)) <= 2000
    /\ Abs(VDot(cam.right, cam.up)) <= 2000
    /\ Abs(VDot(cam.front, cam.front) - 1000000) <= 4000
    /\ Abs(VDot(cam.right, cam.right) - 1000000) <= 4000
    /\ Abs(VDot(cam.up, cam.up) - 1000000) <= 4000
C18_InRange(cam) ==
    /\ cam.yaw >= -1800 /\ cam.yaw <= 1800
    /\ cam.pitch >= -890 /\ cam.pitch <= 890

\* C18: after construction and after every call, with yaw in [-180,180] and
\* pitch in [-89,89], front, right and up are pairwise orthogonal unit vectors
\* (to the precision of the grid); the basis is always the one update_vectors
\* computes from the current yaw and pitch; and it changes only in a mouse
\* motion call made while rotation is enabled.
C18_BasisInvariant ==
    /\ [](C18_InRange(cams[1]) => C18_Orthonormal(cams[1]))
    /\ [](C18_InRange(before) => C18_Orthonormal(before))
    /\ [](cams[1] = update_vectors(cams[1]))
    /\ [][C18_Basis(cams'[1]) # C18_Basis(cams[1])
            => /\ ncalls' = ncalls + 1
               /\ dkind' = "mouse"
               /\ ~dev'.is_scroll
               /\ before' = cams[1]
               /\ cams[1].rotate_enabled]_vars

\* C18 witness: a rotation took the camera from yaw -90, pitch 0 to yaw -53,
\* pitch 89 (clamped), where front is nearly parallel to world_up, and the
\* basis is orthonormal and no longer the constructed one
C18_Witness ==
    /\ LatestMotion
    /\ before.rotate_enabled
    /\ before.yaw = -900
    /\ cams[1].yaw = -530
    /\ cams[1].pitch = 890
    /\ C18_Basis(cams[1]) # C18_Basis(before)
    /\ C18_Orthonormal(cams[1])

\* the latest direct call was on_input; live is the backend state it polled
LatestInput == ncalls > 0 /\ dkind = "input"

\* C19: a call of on_input sets rotate_enabled when the left button is down
\* and it was clear, clears it when the button is up and it was set, and
\* leaves it as it was otherwise, so that afterwards it equals the button's
\* live state; the call changes no field but rotate_enabled and position.
C19_EdgeToggle ==
    LatestInput =>
        /\ (live.button_left /\ ~before.rotate_enabled) => cams[1].rotate_enabled
        /\ (~live.button_left /\ before.rotate_enabled) => ~cams[1].rotate_enabled
        /\ (live.button_left = before.rotate_enabled)
              => cams[1].rotate_enabled = before.rotate_enabled
        /\ cams[1].rotate_enabled = live.button_left
        /\ cams[1] = [before EXCEPT !.rotate_enabled = cams[1].rotate_enabled,
                                    !.position = cams[1].position]
        /\ live.keys = {} => cams[1].position = before.position

\* C19 witness: with rotation enabled and the camera turned, a poll that finds
\* the button up (and W and A held) cleared rotate_enabled, moved the camera
\* and left yaw, pitch and the basis alone
C19_Witness ==
    /\ LatestInput
    /\ before.rotate_enabled
    /\ before.yaw # DefaultCamera.yaw
    /\ ~live.button_left
    /\ live.keys = {"W", "A"}
    /\ ~cams[1].rotate_enabled
    /\ cams[1].position # before.position
    /\ cams[1].yaw = before.yaw
    /\ cams[1].front = before.front

\* a second case of C19: the press edge
C19_WitnessPress ==
    /\ LatestInput
    /\ ~before.rotate_enabled
    /\ live.button_left
    /\ cams[1].rotate_enabled

\* the step is a handler call on controllable c by the dispatch in flight
C20_CallOn(c) == Len(calls') = Len(calls) + 1 /\ calls'[Len(calls')] = c
C20_Motion == pc = "events" /\ dkind = "mouse" /\ ~dev.is_scroll
\* the call turned the camera by the event's offsets
C20_Turned(c) ==
    /\ cams'[c].yaw = cams[c].yaw + dev.x_offset * cams[c].mouse_sensitivity
    /\ cams'[c].pitch = ClampPitch(cams[c].constrain_pitch,
                                   cams[c].pitch + dev.y_offset * cams[c].mouse_sensitivity)

\* C20: a registered controllable's rotate_enabled changes only in a call of
\* the continuous poll, so all
\* through a tick's event drain it is what it was when the tick started, as
\* the previous tick's poll left it (gate); a cursor-motion event turns the
\* camera exactly when that value is set, whatever the button's live state:
\* with the button down and the press not yet polled the camera is left as
\* it is, with the button up and the release not yet polled it still turns.
C20_GateLag ==
    /\ [][\A k \in 1..Len(controls) :
            LET c == controls[k]
            IN cams'[c].rotate_enabled # cams[c].rotate_enabled
                 => (pc = "input" /\ dkind = "input" /\ C20_CallOn(c))]_vars
    /\ [](pc \in {"timing", "events"} => \A c \in Ids : cams[c].rotate_enabled = gate[c])
    /\ [][\A c \in Ids :
            (C20_Motion /\ C20_CallOn(c))
              => IF gate[c] THEN C20_Turned(c) ELSE cams'[c] = cams[c]]_vars
    /\ [][\A c \in Ids :
            (C20_Motion /\ C20_CallOn(c) /\ live.button_left /\ ~gate[c])
              => (cams'[c].yaw = cams[c].yaw /\ cams'[c].pitch = cams[c].pitch)]_vars
    /\ [][\A c \in Ids :
            (C20_Motion /\ C20_CallOn(c) /\ ~live.button_left /\ gate[c])
              => C20_Turned(c)]_vars

\* C20 witness: the press and a cursor move by (30,900) came in the same
\* poll_events; in the next tick the move has been dispatched to the camera
\* with the button down, and yaw and pitch are as constructed
C20_Witness ==
    /\ tick = 2
    /\ pc = "events"
    /\ dkind = "mouse"
    /\ dev = MouseEvent(130, 0, 30, 900, FALSE, None)
    /\ live.button_left
    /\ ~gate[1]
    /\ calls = <<1>>
    /\ cams[1].yaw = -900
    /\ cams[1].pitch = 0

\* the release case of C20: the same move, with the release in the same
\* poll_events, has turned the camera by 3 degrees and up to the pitch bound
\* although the button is up
C20_WitnessRelease ==
    /\ tick = 2
    /\ pc = "events"
    /\ dkind = "mouse"
    /\ dev = MouseEvent(130, 0, 30, 900, FALSE, None)
    /\ ~live.button_left
    /\ gate[1]
    /\ calls = <<1>>
    /\ cams[1].yaw = -870
    /\ cams[1].pitch = 890
====
